---- MODULE Spec2Model ----
(***************************************************************************)
(* A model of the Account class of the ATM simulation                      *)
(* ("# ATM Machine Simulation in Python.py").                              *)
(*                                                                         *)
(* Python floats are modelled as binary floating-point values with a       *)
(* MantBits-bit significand (Python: 53), rounding to nearest, ties to     *)
(* even.  A finite value is an integer count of eighths of a dollar, so    *)
(* 0.125 is 1 and 1000.00 is 8000; nan, inf and -inf are values of their   *)
(* own and behave as IEEE 754 says.                                        *)
(*                                                                         *)
(* Python strings are modelled as sequences of characters.  The character  *)
(* "U+00B2" is SUPERSCRIPT TWO, for which str.isdigit() is True.           *)
(***************************************************************************)
EXTENDS Integers, Sequences, FiniteSets, TLC

VARIABLES
    pin,                  \* Account.pin
    balance,              \* Account.balance
    transaction_history,  \* Account.transaction_history
    call,                 \* the most recent call: its operation and arguments
    ret,                  \* what the most recent call returned
    held,                 \* TRUE once a caller holds the list returned by get_transaction_history
    exact,                \* ghost: initial balance + deposits - withdrawals, without rounding
    oplog,                \* ghost: the successful operations, without any PIN value
    pc,                   \* atm_simulation: where the session is
    attempt,              \* atm_simulation: the wrong PIN entries so far
    inp,                  \* atm_simulation: the texts input() returned in the last step
    out                   \* atm_simulation: the lines printed in the last step

vars == <<pin, balance, transaction_history, call, ret, held, exact, oplog,
          pc, attempt, inp, out>>

\* The Account's fields, its last call and the ghosts
account_vars == <<pin, balance, transaction_history, call, ret, held, exact, oplog>>

\* The session's variables
session_vars == <<pc, attempt, inp, out>>

(*************************** bounds ****************************************)

\* No withdraw, deposit or change_pin is called once MaxHist of them have succeeded,
\* and a caller appends to a list of fewer than MaxHist records.
MaxHist == 3

\* In a session, no withdraw, deposit or change_pin is called once MaxSessionOps of
\* them have succeeded.
MaxSessionOps == 2

\* Bits of the significand of a float (Python's float has 53).
MantBits == 10

(*************************** floats ****************************************)

Fin(n) == [k |-> "fin", v |-> n]
NaN == [k |-> "nan", v |-> 0]
Inf == [k |-> "inf", v |-> 0]
NegInf == [k |-> "ninf", v |-> 0]
Zero == Fin(0)

\* n dollars, in eighths
Dollars(n) == Fin(n * 8)

Abs(n) == IF n < 0 THEN -n ELSE n

RECURSIVE Pow2(_)
Pow2(e) == IF e = 0 THEN 1 ELSE 2 * Pow2(e - 1)

\* How many low bits of m do not fit a MantBits-bit significand.
RECURSIVE Excess(_)
Excess(m) == IF m < Pow2(MantBits) THEN 0 ELSE 1 + Excess(m \div 2)

\* Round the integer n to the nearest representable float, ties to even.
RoundNearestEven(n) ==
    LET m == Abs(n)
        e == Excess(m)
        q == m \div Pow2(e)
        r == m % Pow2(e)
        up == (2 * r > Pow2(e)) \/ (2 * r = Pow2(e) /\ q % 2 = 1)
        a == (IF up THEN q + 1 ELSE q) * Pow2(e)
    IN  IF n < 0 THEN -a ELSE a

FNeg(a) ==
    CASE a.k = "fin" -> Fin(-a.v)
      [] a.k = "inf" -> NegInf
      [] a.k = "ninf" -> Inf
      [] OTHER -> NaN

\* x + y on floats
FAdd(a, b) ==
    CASE a.k = "nan" \/ b.k = "nan" -> NaN
      [] a.k = "fin" /\ b.k = "fin" -> Fin(RoundNearestEven(a.v + b.v))
      [] a.k = "fin" -> b
      [] b.k = "fin" -> a
      [] a.k = b.k -> a
      [] OTHER -> NaN

\* x - y on floats
FSub(a, b) == FAdd(a, FNeg(b))

\* x + y in exact arithmetic (no rounding)
ExactAdd(a, b) ==
    CASE a.k = "nan" \/ b.k = "nan" -> NaN
      [] a.k = "fin" /\ b.k = "fin" -> Fin(a.v + b.v)
      [] a.k = "fin" -> b
      [] b.k = "fin" -> a
      [] a.k = b.k -> a
      [] OTHER -> NaN

\* x <= y on floats: False when either is nan
FLe(a, b) ==
    CASE a.k = "nan" \/ b.k = "nan" -> FALSE
      [] a.k = "ninf" \/ b.k = "inf" -> TRUE
      [] a.k = "inf" \/ b.k = "ninf" -> FALSE
      [] OTHER -> a.v <= b.v

\* x > y on floats: False when either is nan
FGt(a, b) ==
    CASE a.k = "nan" \/ b.k = "nan" -> FALSE
      [] a.k = "ninf" \/ b.k = "inf" -> FALSE
      [] a.k = "inf" \/ b.k = "ninf" -> TRUE
      [] OTHER -> a.v > b.v

\* The format specification ".2f": two decimals, the exact value rounded half to even.
Fmt2(a) ==
    CASE a.k = "nan" -> "nan"
      [] a.k = "inf" -> "inf"
      [] a.k = "ninf" -> "-inf"
      [] OTHER ->
            LET m == Abs(a.v) * 100
                c == m \div 8
                r == m % 8
                cents == IF r > 4 \/ (r = 4 /\ c % 2 = 1) THEN c + 1 ELSE c
                frac == cents % 100
            IN  (IF a.v < 0 THEN "-" ELSE "")
                    \o ToString(cents \div 100) \o "."
                    \o ToString(frac \div 10) \o ToString(frac % 10)

(*************************** strings ***************************************)

\* The characters c for which c.isdigit() is True, among those the model uses:
\* the ASCII digits and SUPERSCRIPT TWO.
UnicodeDigits == {"0", "1", "2", "3", "4", "5", "6", "7", "8", "9", "U+00B2"}

\* str.isdigit(): every character is a digit and there is at least one character.
IsDigit(s) == Len(s) > 0 /\ \A i \in 1..Len(s) : s[i] \in UnicodeDigits

(*************************** inputs ****************************************)

\* The amounts a caller passes to withdraw and deposit.
Amounts ==
    {NaN, Inf, NegInf, Dollars(-1), Zero, Fin(1), Dollars(50), Dollars(200), Dollars(10000)}

\* The strings a caller passes to change_pin.
PinInputs ==
    { <<"1", "2", "3", "4">>, <<"5", "6", "7", "8">>, <<"5", "6">>, <<>>,
      <<"1", "2", "a", "4">>,
      <<"U+00B2", "U+00B2", "U+00B2", "U+00B2">> }

\* The balances an Account is constructed with: the default and the session's.
InitialBalances == {Zero, Dollars(1000)}

(*************************** calls and returns *****************************)

Call(op, amount, old_pin, new_pin) ==
    [op |-> op, amount |-> amount, old_pin |-> old_pin, new_pin |-> new_pin]

None == [kind |-> "none", ok |-> FALSE, msg |-> "", value |-> Zero, list |-> <<>>]

\* A returned tuple (success, message)
Tuple(ok, msg) == [kind |-> "tuple", ok |-> ok, msg |-> msg, value |-> Zero, list |-> <<>>]

\* A returned float
Float(x) == [kind |-> "float", ok |-> FALSE, msg |-> "", value |-> x, list |-> <<>>]

\* A returned list
List(l) == [kind |-> "list", ok |-> FALSE, msg |-> "", value |-> Zero, list |-> l]

(*************************** Account ***************************************)

\* (bug) the record is never stored
AppendDropped(history, record) == history

\* (bug) list.insert(0, record)
PrependRecord(history, record) == <<record>> \o history

\* list.append
AppendRecord(history, record) == Append(history, record)

\* (bug) amount < 0
WithdrawRejectsNegative(amount) == FGt(Zero, amount)

\* withdraw: amount <= 0
WithdrawRejectsAmount(amount) == FLe(amount, Zero)

\* (bug) amount < self.balance
InsufficientFundsFlipped(amount, bal) == FGt(bal, amount)

\* withdraw: amount > self.balance
InsufficientFunds(amount, bal) == FGt(amount, bal)

\* (bug) self.balance += amount
BalanceAfterWithdrawAdds(bal, amount) == FAdd(bal, amount)

\* withdraw: self.balance -= amount
BalanceAfterWithdraw(bal, amount) == FSub(bal, amount)

WithdrawRecord(amount) == "Withdrew $" \o Fmt2(amount)

\* deposit: amount <= 0
DepositRejectsAmount(amount) == FLe(amount, Zero)

\* deposit: self.balance += amount
BalanceAfterDeposit(bal, amount) == FAdd(bal, amount)

DepositRecord(amount) == "Deposited $" \o Fmt2(amount)

\* (bug) old_pin is compared with the PIN the account was opened with
PinMismatchDefault(old_pin, stored) == old_pin # <<"1", "2", "3", "4">>

\* change_pin: old_pin != self.pin
PinMismatch(old_pin, stored) == old_pin # stored

\* change_pin: not new_pin.isdigit() or len(new_pin) != 4
PinMalformed(new_pin) == ~IsDigit(new_pin) \/ Len(new_pin) # 4

RECURSIVE Join(_)
Join(s) == IF s = <<>> THEN "" ELSE Head(s) \o Join(Tail(s))

\* (bug) the record names the new PIN
PinRecordLeak(old_pin, new_pin) == "PIN changed to " \o Join(new_pin)

\* change_pin: the record appended on success
PinRecord(old_pin, new_pin) == "PIN changed"

Init ==
    /\ pin = <<"1", "2", "3", "4">>
    /\ balance \in InitialBalances
    /\ transaction_history = <<>>
    /\ call = Call("__init__", balance, <<>>, pin)
    /\ ret = None
    /\ held = FALSE
    /\ exact = balance
    /\ oplog = <<>>
    /\ pc = "caller"
    /\ attempt = 0
    /\ inp = <<>>
    /\ out = <<>>

\* check_balance: return self.balance
CheckBalanceResult == balance

\* (bug) the inquiry is written to the history
check_balance_logged ==
    /\ call' = Call("check_balance", Zero, <<>>, <<>>)
    /\ ret' = Float(balance)
    /\ transaction_history' = Append(transaction_history, "Balance inquiry")
    /\ UNCHANGED <<pin, balance, held, exact, oplog>>

check_balance ==
    /\ call' = Call("check_balance", Zero, <<>>, <<>>)
    /\ ret' = Float(CheckBalanceResult)
    /\ UNCHANGED <<pin, balance, transaction_history, held, exact, oplog>>

withdraw(amount) ==
    /\ Len(oplog) < MaxHist
    /\ call' = Call("withdraw", amount, <<>>, <<>>)
    /\ IF WithdrawRejectsAmount(amount)
       THEN /\ ret' = Tuple(FALSE, "Withdrawal amount must be positive.")
            /\ UNCHANGED <<balance, transaction_history, exact, oplog>>
       ELSE IF InsufficientFunds(amount, balance)
       THEN /\ ret' = Tuple(FALSE, "Insufficient funds.")
            /\ UNCHANGED <<balance, transaction_history, exact, oplog>>
       ELSE /\ balance' = BalanceAfterWithdraw(balance, amount)
            /\ transaction_history' =
                   AppendRecord(transaction_history, WithdrawRecord(amount))
            /\ ret' = Tuple(TRUE, "Successfully withdrew $" \o Fmt2(amount)
                                      \o ". New balance: $" \o Fmt2(balance'))
            /\ exact' = ExactAdd(exact, FNeg(amount))
            /\ oplog' = Append(oplog, [op |-> "withdraw", amount |-> amount])
    /\ UNCHANGED <<pin, held>>

\* (bug) the amount is added before it is validated
deposit_add_first(amount) ==
    /\ Len(oplog) < MaxHist
    /\ call' = Call("deposit", amount, <<>>, <<>>)
    /\ balance' = BalanceAfterDeposit(balance, amount)
    /\ IF DepositRejectsAmount(amount)
       THEN /\ ret' = Tuple(FALSE, "Deposit amount must be positive.")
            /\ UNCHANGED <<transaction_history, exact, oplog>>
       ELSE /\ transaction_history' =
                   AppendRecord(transaction_history, DepositRecord(amount))
            /\ ret' = Tuple(TRUE, "Successfully deposited $" \o Fmt2(amount)
                                      \o ". New balance: $" \o Fmt2(balance'))
            /\ exact' = ExactAdd(exact, amount)
            /\ oplog' = Append(oplog, [op |-> "deposit", amount |-> amount])
    /\ UNCHANGED <<pin, held>>

deposit(amount) ==
    /\ Len(oplog) < MaxHist
    /\ call' = Call("deposit", amount, <<>>, <<>>)
    /\ IF DepositRejectsAmount(amount)
       THEN /\ ret' = Tuple(FALSE, "Deposit amount must be positive.")
            /\ UNCHANGED <<balance, transaction_history, exact, oplog>>
       ELSE /\ balance' = BalanceAfterDeposit(balance, amount)
            /\ transaction_history' =
                   AppendRecord(transaction_history, DepositRecord(amount))
            /\ ret' = Tuple(TRUE, "Successfully deposited $" \o Fmt2(amount)
                                      \o ". New balance: $" \o Fmt2(balance'))
            /\ exact' = ExactAdd(exact, amount)
            /\ oplog' = Append(oplog, [op |-> "deposit", amount |-> amount])
    /\ UNCHANGED <<pin, held>>

\* (bug) the new PIN is stored before its format is checked
change_pin_assign_first(old_pin, new_pin) ==
    /\ Len(oplog) < MaxHist
    /\ call' = Call("change_pin", Zero, old_pin, new_pin)
    /\ IF PinMismatch(old_pin, pin)
       THEN /\ ret' = Tuple(FALSE, "Incorrect current PIN.")
            /\ UNCHANGED <<pin, transaction_history, oplog>>
       ELSE /\ pin' = new_pin
            /\ IF PinMalformed(new_pin)
               THEN /\ ret' = Tuple(FALSE, "New PIN must be a 4-digit number.")
                    /\ UNCHANGED <<transaction_history, oplog>>
               ELSE /\ transaction_history' =
                           AppendRecord(transaction_history, PinRecord(old_pin, new_pin))
                    /\ ret' = Tuple(TRUE, "PIN successfully changed.")
                    /\ oplog' = Append(oplog, [op |-> "change_pin", amount |-> Zero])
    /\ UNCHANGED <<balance, held, exact>>

\* (bug) the format of new_pin is checked before old_pin
change_pin_format_first(old_pin, new_pin) ==
    /\ Len(oplog) < MaxHist
    /\ call' = Call("change_pin", Zero, old_pin, new_pin)
    /\ IF PinMalformed(new_pin)
       THEN /\ ret' = Tuple(FALSE, "New PIN must be a 4-digit number.")
            /\ UNCHANGED <<pin, transaction_history, oplog>>
       ELSE IF PinMismatch(old_pin, pin)
       THEN /\ ret' = Tuple(FALSE, "Incorrect current PIN.")
            /\ UNCHANGED <<pin, transaction_history, oplog>>
       ELSE /\ pin' = new_pin
            /\ transaction_history' =
                   AppendRecord(transaction_history, PinRecord(old_pin, new_pin))
            /\ ret' = Tuple(TRUE, "PIN successfully changed.")
            /\ oplog' = Append(oplog, [op |-> "change_pin", amount |-> Zero])
    /\ UNCHANGED <<balance, held, exact>>

change_pin(old_pin, new_pin) ==
    /\ Len(oplog) < MaxHist
    /\ call' = Call("change_pin", Zero, old_pin, new_pin)
    /\ IF PinMismatch(old_pin, pin)
       THEN /\ ret' = Tuple(FALSE, "Incorrect current PIN.")
            /\ UNCHANGED <<pin, transaction_history, oplog>>
       ELSE IF PinMalformed(new_pin)
       THEN /\ ret' = Tuple(FALSE, "New PIN must be a 4-digit number.")
            /\ UNCHANGED <<pin, transaction_history, oplog>>
       ELSE /\ pin' = new_pin
            /\ transaction_history' =
                   AppendRecord(transaction_history, PinRecord(old_pin, new_pin))
            /\ ret' = Tuple(TRUE, "PIN successfully changed.")
            /\ oplog' = Append(oplog, [op |-> "change_pin", amount |-> Zero])
    /\ UNCHANGED <<balance, held, exact>>

\* The list itself is returned, not a copy: the caller now holds the Account's list.
get_transaction_history ==
    /\ call' = Call("get_transaction_history", Zero, <<>>, <<>>)
    /\ ret' = List(transaction_history)
    /\ held' = TRUE
    /\ UNCHANGED <<pin, balance, transaction_history, exact, oplog>>

\* The Account is used directly by a caller: no session runs.
NoSession == UNCHANGED session_vars

Next ==
    \/ check_balance /\ NoSession
    \/ \E amount \in Amounts : withdraw(amount) /\ NoSession
    \/ \E amount \in Amounts : deposit(amount) /\ NoSession
    \/ \E old_pin \in PinInputs, new_pin \in PinInputs :
           change_pin(old_pin, new_pin) /\ NoSession
    \/ get_transaction_history /\ NoSession

Spec == Init /\ [][Next]_vars

(*************************** callers ***************************************)

\* What a caller can do with the list get_transaction_history returned: it is the
\* Account's own list object, so each of these acts on transaction_history.

caller_append ==
    /\ held
    /\ Len(transaction_history) < MaxHist
    /\ transaction_history' = Append(transaction_history, "forged")
    /\ call' = Call("list.append", Zero, <<>>, <<>>)
    /\ ret' = None
    /\ UNCHANGED <<pin, balance, held, exact, oplog>>
    /\ NoSession

caller_remove ==
    /\ held
    /\ transaction_history # <<>>
    /\ \E i \in 1..Len(transaction_history) :
           transaction_history' =
               SubSeq(transaction_history, 1, i - 1)
                   \o SubSeq(transaction_history, i + 1, Len(transaction_history))
    /\ call' = Call("list.pop", Zero, <<>>, <<>>)
    /\ ret' = None
    /\ UNCHANGED <<pin, balance, held, exact, oplog>>
    /\ NoSession

caller_overwrite ==
    /\ held
    /\ \E i \in 1..Len(transaction_history) :
           transaction_history' = [transaction_history EXCEPT ![i] = "forged"]
    /\ call' = Call("list.__setitem__", Zero, <<>>, <<>>)
    /\ ret' = None
    /\ UNCHANGED <<pin, balance, held, exact, oplog>>
    /\ NoSession

caller_clear ==
    /\ held
    /\ transaction_history' = <<>>
    /\ call' = Call("list.clear", Zero, <<>>, <<>>)
    /\ ret' = None
    /\ UNCHANGED <<pin, balance, held, exact, oplog>>
    /\ NoSession

\* The calls that fill the history while a caller holds the list.
CallerAmounts == {Zero, Dollars(50), Dollars(200)}

CallerPins == { <<"1", "2", "3", "4">>, <<"5", "6", "7", "8">>, <<"5", "6">> }

NextCaller ==
    \/ check_balance /\ NoSession
    \/ \E amount \in CallerAmounts : withdraw(amount) /\ NoSession
    \/ \E amount \in CallerAmounts : deposit(amount) /\ NoSession
    \/ \E old_pin \in CallerPins, new_pin \in CallerPins :
           change_pin(old_pin, new_pin) /\ NoSession
    \/ get_transaction_history /\ NoSession
    \/ caller_append
    \/ caller_remove
    \/ caller_overwrite
    \/ caller_clear

\* The Account together with a caller that uses the returned list.
SpecCaller == Init /\ [][NextCaller]_vars

(*************************** session ***************************************)

\* atm_simulation, one step per input round: a PIN entry, or a menu choice with the
\* inputs and the call it leads to.  A text is a sequence of characters.

\* for attempt in range(3)
MaxAttempts == 3

\* (bug) for attempt in range(4)
EnterPinAttemptsOffByOne == 3 + 1

\* The number of PIN entries the session asks for at most
EnterPinAttempts == MaxAttempts

ValueError == [k |-> "ValueError", v |-> 0]

FloatDigits == {"0", "1", "2", "3", "4", "5", "6", "7", "8", "9"}

DigitValue(c) ==
    CASE c = "0" -> 0 [] c = "1" -> 1 [] c = "2" -> 2 [] c = "3" -> 3 [] c = "4" -> 4
      [] c = "5" -> 5 [] c = "6" -> 6 [] c = "7" -> 7 [] c = "8" -> 8 [] c = "9" -> 9

IsDecimalText(t) == Len(t) > 0 /\ \A i \in 1..Len(t) : t[i] \in FloatDigits

RECURSIVE DecimalValue(_)
DecimalValue(t) ==
    IF t = <<>> THEN 0
    ELSE 10 * DecimalValue(SubSeq(t, 1, Len(t) - 1)) + DigitValue(t[Len(t)])

\* float(text), for the texts the model enters: an optionally signed decimal integer,
\* "nan" or "inf" is converted (and rounded to a float); anything else raises ValueError.
ParseFloat(t) ==
    IF IsDecimalText(t) THEN Fin(RoundNearestEven(8 * DecimalValue(t)))
    ELSE IF Len(t) > 1 /\ Head(t) = "-" /\ IsDecimalText(Tail(t))
    THEN Fin(-RoundNearestEven(8 * DecimalValue(Tail(t))))
    ELSE IF t = <<"n", "a", "n">> THEN NaN
    ELSE IF t = <<"i", "n", "f">> THEN Inf
    ELSE ValueError

\* The texts entered as amounts
AmountTexts ==
    { <<"2", "0", "0">>, <<"5", "0">>, <<"0">>, <<"n", "a", "n">>,
      <<"1", "2", "a">>, <<>> }

\* The texts entered as PINs
PinTexts == { <<"1", "2", "3", "4">>, <<"5", "6", "7", "8">>, <<"5", "6">> }

\* The texts entered as menu choices that are none of '1'..'6'
OtherChoices == { <<"7">>, <<>> }

\* account = Account(pin="1234", balance=1000.00)
SessionInit ==
    /\ pin = <<"1", "2", "3", "4">>
    /\ balance = Dollars(1000)
    /\ transaction_history = <<>>
    /\ call = Call("__init__", balance, <<>>, pin)
    /\ ret = None
    /\ held = FALSE
    /\ exact = balance
    /\ oplog = <<>>
    /\ pc = "pin"
    /\ attempt = 0
    /\ inp = <<>>
    /\ out = <<"Welcome to the ATM Simulation.">>

\* One round of the PIN loop; the third wrong entry falls into the loop's else and returns.
enter_pin(entered_pin) ==
    /\ pc = "pin"
    /\ attempt < EnterPinAttempts
    /\ inp' = <<entered_pin>>
    /\ IF entered_pin = pin
       THEN /\ pc' = "menu"
            /\ out' = <<"PIN accepted. Access granted.\n">>
            /\ UNCHANGED attempt
       ELSE /\ attempt' = attempt + 1
            /\ IF attempt + 1 = EnterPinAttempts
               THEN /\ pc' = "locked"
                    /\ out' = <<"Incorrect PIN. Please try again.\n",
                                "Too many incorrect PIN attempts. Exiting.">>
               ELSE /\ pc' = "pin"
                    /\ out' = <<"Incorrect PIN. Please try again.\n">>
    /\ UNCHANGED account_vars

\* choice == '1'
menu_balance ==
    /\ pc = "menu"
    /\ inp' = << <<"1">> >>
    /\ check_balance
    /\ out' = <<"Your current balance is: $" \o Fmt2(ret'.value) \o "\n">>
    /\ UNCHANGED <<pc, attempt>>

\* (bug) no try/except: the ValueError ends the session
menu_withdraw_uncaught(amount_str) ==
    /\ pc = "menu"
    /\ inp' = << <<"2">>, amount_str >>
    /\ LET amount == ParseFloat(amount_str)
       IN  IF amount = ValueError
           THEN /\ pc' = "crashed"
                /\ out' = <<"ValueError: could not convert string to float">>
                /\ UNCHANGED account_vars
           ELSE /\ Len(oplog) < MaxSessionOps
                /\ withdraw(amount)
                /\ out' = <<ret'.msg \o "\n">>
                /\ UNCHANGED pc
    /\ UNCHANGED attempt

\* choice == '2'
menu_withdraw(amount_str) ==
    /\ pc = "menu"
    /\ inp' = << <<"2">>, amount_str >>
    /\ LET amount == ParseFloat(amount_str)
       IN  IF amount = ValueError
           THEN /\ out' = <<"Invalid input. Please enter a numeric value.\n">>
                /\ UNCHANGED account_vars
           ELSE /\ Len(oplog) < MaxSessionOps
                /\ withdraw(amount)
                /\ out' = <<ret'.msg \o "\n">>
    /\ UNCHANGED <<pc, attempt>>

\* choice == '3'
menu_deposit(amount_str) ==
    /\ pc = "menu"
    /\ inp' = << <<"3">>, amount_str >>
    /\ LET amount == ParseFloat(amount_str)
       IN  IF amount = ValueError
           THEN /\ out' = <<"Invalid input. Please enter a numeric value.\n">>
                /\ UNCHANGED account_vars
           ELSE /\ Len(oplog) < MaxSessionOps
                /\ deposit(amount)
                /\ out' = <<ret'.msg \o "\n">>
    /\ UNCHANGED <<pc, attempt>>

\* (bug) a failed PIN change ends the session
menu_change_pin_ends(old_pin, new_pin) ==
    /\ pc = "menu"
    /\ inp' = << <<"4">>, old_pin, new_pin >>
    /\ Len(oplog) < MaxSessionOps
    /\ change_pin(old_pin, new_pin)
    /\ out' = <<ret'.msg \o "\n">>
    /\ pc' = IF ret'.ok THEN "menu" ELSE "exited"
    /\ UNCHANGED attempt

\* choice == '4'
menu_change_pin(old_pin, new_pin) ==
    /\ pc = "menu"
    /\ inp' = << <<"4">>, old_pin, new_pin >>
    /\ Len(oplog) < MaxSessionOps
    /\ change_pin(old_pin, new_pin)
    /\ out' = <<ret'.msg \o "\n">>
    /\ UNCHANGED <<pc, attempt>>

\* The lines "1. ...", "2. ..." of the history
HistoryLines(history) ==
    [i \in 1..Len(history) |-> ToString(i) \o ". " \o history[i]]

\* choice == '5'
menu_history ==
    /\ pc = "menu"
    /\ inp' = << <<"5">> >>
    /\ get_transaction_history
    /\ out' = IF ret'.list = <<>>
              THEN <<"No transactions have been made yet.\n">>
              ELSE <<"Transaction History:">> \o HistoryLines(ret'.list) \o <<"">>
    /\ UNCHANGED <<pc, attempt>>

\* choice == '6'
menu_exit ==
    /\ pc = "menu"
    /\ inp' = << <<"6">> >>
    /\ pc' = "exited"
    /\ out' = <<"Thank you for using the ATM Simulation. Goodbye!">>
    /\ UNCHANGED attempt
    /\ UNCHANGED account_vars

\* any other choice
menu_invalid(choice) ==
    /\ pc = "menu"
    /\ inp' = <<choice>>
    /\ out' = <<"Invalid selection. Please choose a valid option.\n">>
    /\ UNCHANGED <<pc, attempt>>
    /\ UNCHANGED account_vars

SessionNext ==
    \/ \E entered_pin \in PinTexts : enter_pin(entered_pin)
    \/ menu_balance
    \/ \E amount_str \in AmountTexts : menu_withdraw(amount_str)
    \/ \E amount_str \in AmountTexts : menu_deposit(amount_str)
    \/ \E old_pin \in PinTexts, new_pin \in PinTexts : menu_change_pin(old_pin, new_pin)
    \/ menu_history
    \/ menu_exit
    \/ \E choice \in OtherChoices : menu_invalid(choice)

\* The session: atm_simulation on its own Account.
SpecSession == SessionInit /\ [][SessionNext]_vars

(*************************** properties ************************************)

AsciiDigits == {"0", "1", "2", "3", "4", "5", "6", "7", "8", "9"}

FourDecimalDigits(s) == Len(s) = 4 /\ \A i \in 1..Len(s) : s[i] \in AsciiDigits

IsPrefix(s, t) == Len(s) <= Len(t) /\ SubSeq(t, 1, Len(s)) = s

Last(s) == s[Len(s)]

AccountMutators == {"withdraw", "deposit", "change_pin"}

CallerOps == {"list.append", "list.pop", "list.__setitem__", "list.clear"}

\* C1: the balance is >= 0 in every reachable state.
BalanceNonNegative == FLe(Zero, balance)

\* C2: a withdraw or deposit of an amount <= 0 fails with the "must be positive"
\* message of its operation and leaves balance and history unchanged.
NonPositiveAmountRejected ==
    [][ (call'.op \in {"withdraw", "deposit"} /\ FLe(call'.amount, Zero))
          => /\ ret'.ok = FALSE
             /\ ret'.msg = (IF call'.op = "withdraw"
                            THEN "Withdrawal amount must be positive."
                            ELSE "Deposit amount must be positive.")
             /\ balance' = balance
             /\ transaction_history' = transaction_history ]_vars

\* C2 witness: a deposit of a negative amount was rejected on an account that has
\* a balance and a history.
NonPositiveAmountWitness ==
    /\ call.op = "deposit"
    /\ call.amount = Dollars(-1)
    /\ ret.msg = "Deposit amount must be positive."
    /\ FGt(balance, Zero)
    /\ transaction_history # <<>>

\* C3: a withdraw of an amount greater than the balance fails with
\* "Insufficient funds." and leaves balance and history unchanged.
OverdraftRejected ==
    [][ (call'.op = "withdraw" /\ FGt(call'.amount, balance))
          => /\ ret'.ok = FALSE
             /\ ret'.msg = "Insufficient funds."
             /\ balance' = balance
             /\ transaction_history' = transaction_history ]_vars

\* C3 witness: a withdraw of more than a positive balance was rejected.
OverdraftWitness ==
    /\ call.op = "withdraw"
    /\ FGt(call.amount, balance)
    /\ FGt(balance, Zero)
    /\ ret.msg = "Insufficient funds."
    /\ transaction_history # <<>>

\* C4: the balance equals the initial balance plus the successful deposits minus the
\* successful withdrawals, and the history holds one record per successful operation.
BalanceIsSumOfOperations ==
    /\ balance = exact
    /\ Len(transaction_history) = Len(oplog)

\* C5: a successful withdraw, deposit or change_pin appends exactly one record, of its
\* kind, and a failed one leaves the history as it was.
OneRecordPerSuccess ==
    [][ call'.op \in AccountMutators
          => IF ret'.ok
             THEN /\ Len(transaction_history') = Len(transaction_history) + 1
                  /\ SubSeq(transaction_history', 1, Len(transaction_history))
                         = transaction_history
                  /\ Last(transaction_history') =
                         CASE call'.op = "withdraw" -> "Withdrew $" \o Fmt2(call'.amount)
                           [] call'.op = "deposit" -> "Deposited $" \o Fmt2(call'.amount)
                           [] OTHER -> "PIN changed"
             ELSE transaction_history' = transaction_history ]_vars

\* C5 witness: a successful change_pin added its record to a history that had one.
OneRecordPerSuccessWitness ==
    /\ call.op = "change_pin"
    /\ ret.ok
    /\ Len(transaction_history) >= 2
    /\ Last(transaction_history) = "PIN changed"

\* C6: change_pin fails and leaves the pin when old_pin is not the stored pin or
\* new_pin is not exactly 4 decimal digits, and otherwise succeeds and stores new_pin.
ChangePinContract ==
    [][ call'.op = "change_pin"
          => IF call'.old_pin # pin \/ ~FourDecimalDigits(call'.new_pin)
             THEN ret'.ok = FALSE /\ pin' = pin
             ELSE ret'.ok = TRUE /\ pin' = call'.new_pin ]_vars

\* C7: the stored pin is exactly 4 characters, each one of 0-9, in every reachable state.
PinFourDecimalDigits == FourDecimalDigits(pin)

\* The record a successful operation leaves, as a function of the operation and its
\* amount alone.
RecordOf(e) ==
    CASE e.op = "withdraw" -> "Withdrew $" \o Fmt2(e.amount)
      [] e.op = "deposit" -> "Deposited $" \o Fmt2(e.amount)
      [] OTHER -> "PIN changed"

\* C8: the history is a function of the successful operations and their amounts, with
\* no PIN value in it: runs that differ only in PIN values have the same history.
HistoryPinIndependent ==
    transaction_history = [i \in 1..Len(oplog) |-> RecordOf(oplog[i])]

\* C8 witness: the pin was changed twice, to two different values, among other records.
HistoryPinIndependentWitness ==
    /\ Len(transaction_history) = 3
    /\ transaction_history[1] = "PIN changed"
    /\ transaction_history[3] = "PIN changed"
    /\ pin # <<"1", "2", "3", "4">>

\* C9: nothing a caller does with the value get_transaction_history returned changes
\* the Account's transaction history.
ReturnedHistoryImmutable ==
    [][ call'.op \in CallerOps => transaction_history' = transaction_history ]_vars

\* C10: the history before a step is a prefix of the history after it.
HistoryAppendOnly ==
    [][ IsPrefix(transaction_history, transaction_history') ]_vars

\* C10 witness: a history of two records or more, grown by different operations.
HistoryAppendOnlyWitness ==
    /\ Len(transaction_history) >= 2
    /\ transaction_history[1] # transaction_history[2]

\* C12: check_balance returns the current balance and changes neither pin, balance
\* nor history.
CheckBalancePure ==
    [][ call'.op = "check_balance"
          => /\ ret'.kind = "float"
             /\ ret'.value = balance
             /\ pin' = pin
             /\ balance' = balance
             /\ transaction_history' = transaction_history ]_vars

\* C12 witness: check_balance returned the balance of an account whose pin and balance
\* are no longer those it was opened with.
CheckBalancePureWitness ==
    /\ call.op = "check_balance"
    /\ ret.value = balance
    /\ balance = Dollars(850)
    /\ pin = <<"5", "6", "7", "8">>

\* C13: the pin changes only in a successful change_pin step and the balance only in a
\* successful withdraw or deposit step.
FrameOfPinAndBalance ==
    [][ /\ pin' # pin => (call'.op = "change_pin" /\ ret'.ok)
        /\ balance' # balance => (call'.op \in {"withdraw", "deposit"} /\ ret'.ok)
        /\ call'.op \in {"withdraw", "deposit"} => pin' = pin
        /\ call'.op \in {"change_pin", "get_transaction_history"} => balance' = balance
      ]_vars

\* C13 witness: a change_pin failed on its format after a deposit had succeeded.
FrameOfPinAndBalanceWitness ==
    /\ call.op = "change_pin"
    /\ call.old_pin = pin
    /\ ret.msg = "New PIN must be a 4-digit number."
    /\ Len(oplog) >= 1
    /\ oplog[1].op = "deposit"

\* C14: across a failed withdraw, deposit or change_pin, check_balance returns the
\* same value after the attempt as before it.
FailedOperationKeepsBalance ==
    [][ (call'.op \in AccountMutators /\ ~ret'.ok)
          => CheckBalanceResult' = CheckBalanceResult ]_vars

\* C14 witness: a deposit failed on an account with a positive balance.
FailedOperationKeepsBalanceWitness ==
    /\ call.op = "deposit"
    /\ ~ret.ok
    /\ FGt(balance, Zero)
    /\ Len(oplog) >= 1

Pin1234 == <<"1", "2", "3", "4">>

Pin5678 == <<"5", "6", "7", "8">>

Withdrew200 == [op |-> "withdraw", amount |-> Dollars(200)]

Deposited50 == [op |-> "deposit", amount |-> Dollars(50)]

\* C17: from pin "1234" and balance 1000.00: withdraw 200 succeeds, balance 800.00 and
\* history ["Withdrew $200.00"]; deposit 50 succeeds, balance 850.00; withdraw 10000
\* fails with "Insufficient funds.", balance still 850.00; change_pin("1234", "56")
\* fails on the format; change_pin("1234", "5678") succeeds and the pin is "5678".
Scenario ==
    [][ /\ ( /\ oplog = <<>> /\ pin = Pin1234 /\ balance = Dollars(1000)
             /\ call' = Call("withdraw", Dollars(200), <<>>, <<>>) )
          => /\ ret'.ok
             /\ balance' = Dollars(800)
             /\ transaction_history' = <<"Withdrew $200.00">>
        /\ ( /\ oplog = <<Withdrew200>> /\ balance = Dollars(800)
             /\ call' = Call("deposit", Dollars(50), <<>>, <<>>) )
          => /\ ret'.ok
             /\ balance' = Dollars(850)
        /\ ( /\ oplog = <<Withdrew200, Deposited50>> /\ balance = Dollars(850)
             /\ call' = Call("withdraw", Dollars(10000), <<>>, <<>>) )
          => /\ ~ret'.ok
             /\ ret'.msg = "Insufficient funds."
             /\ balance' = Dollars(850)
        /\ ( /\ oplog = <<Withdrew200, Deposited50>> /\ pin = Pin1234
             /\ call' = Call("change_pin", Zero, Pin1234, <<"5", "6">>) )
          => /\ ~ret'.ok
             /\ ret'.msg = "New PIN must be a 4-digit number."
             /\ pin' = Pin1234
        /\ ( /\ oplog = <<Withdrew200, Deposited50>> /\ pin = Pin1234
             /\ call' = Call("change_pin", Zero, Pin1234, Pin5678) )
          => /\ ret'.ok
             /\ pin' = Pin5678
      ]_vars

\* C17 witness: the state the scenario ends in.
ScenarioWitness ==
    /\ oplog = <<Withdrew200, Deposited50, [op |-> "change_pin", amount |-> Zero]>>
    /\ call = Call("change_pin", Zero, Pin1234, Pin5678)
    /\ pin = Pin5678
    /\ balance = Dollars(850)
    /\ transaction_history = <<"Withdrew $200.00", "Deposited $50.00", "PIN changed">>

\* C18: a withdraw of exactly the positive balance succeeds and leaves balance 0, and
\* from balance 0 a withdraw of a positive amount fails with "Insufficient funds."
\* and leaves the balance 0.
WithdrawAllLeavesZero ==
    [][ /\ ( /\ call'.op = "withdraw" /\ call'.amount = balance /\ FGt(balance, Zero) )
          => (ret'.ok /\ balance' = Zero)
        /\ ( /\ call'.op = "withdraw" /\ balance = Zero /\ FGt(call'.amount, Zero) )
          => (~ret'.ok /\ ret'.msg = "Insufficient funds." /\ balance' = Zero)
      ]_vars

\* C19: a change_pin with a wrong old_pin and a malformed new_pin reports
\* "Incorrect current PIN.", not the format failure.
WrongPinReportedFirst ==
    [][ ( /\ call'.op = "change_pin"
          /\ call'.old_pin # pin
          /\ ~FourDecimalDigits(call'.new_pin) )
          => (~ret'.ok /\ ret'.msg = "Incorrect current PIN.") ]_vars

\* C19 witness: such a call, on an account whose pin has been changed.
WrongPinReportedFirstWitness ==
    /\ call.op = "change_pin"
    /\ call.old_pin = Pin1234
    /\ call.new_pin = <<"5", "6">>
    /\ pin = Pin5678
    /\ ret.msg = "Incorrect current PIN."

\* C20: the stored pin is the new_pin of the most recent successful change_pin, or the
\* constructor's pin: it is set by exactly those steps; a change_pin whose old_pin is
\* not it fails with "Incorrect current PIN.", and one whose old_pin is it and whose
\* new_pin is four decimal digits succeeds.
PinIsLastChanged ==
    [][ /\ IF call'.op = "change_pin" /\ ret'.ok
           THEN pin' = call'.new_pin /\ call'.old_pin = pin
           ELSE pin' = pin
        /\ ( call'.op = "change_pin" /\ call'.old_pin # pin )
             => (~ret'.ok /\ ret'.msg = "Incorrect current PIN.")
        /\ ( call'.op = "change_pin" /\ call'.old_pin = pin
                 /\ FourDecimalDigits(call'.new_pin) )
             => ret'.ok
      ]_vars

\* C20 witness: after the pin went from "1234" to "5678" and a deposit, a change_pin
\* that gives the old pin "1234" has failed.
PinIsLastChangedWitness ==
    /\ Len(oplog) = 2
    /\ oplog[1].op = "change_pin"
    /\ oplog[2].op = "deposit"
    /\ pin = Pin5678
    /\ call.op = "change_pin"
    /\ call.old_pin = Pin1234
    /\ call.new_pin = Pin1234
    /\ ret.msg = "Incorrect current PIN."

ValidChoices == { <<"1">>, <<"2">>, <<"3">>, <<"4">>, <<"5">>, <<"6">> }

SessionEnded == {"exited", "locked"}

\* C11: the menu is entered only by a PIN entry equal to the account's pin, made among
\* the first 3; no Account operation is made in the PIN phase; the third wrong entry
\* ends the session with the account as constructed; an ended session takes no further
\* step, and a PIN is never asked for after 3 wrong entries.
SessionPinGate ==
    /\ [](pc = "pin" => attempt < 3)
    /\ [](pc = "locked" => /\ attempt = 3
                           /\ pin = Pin1234
                           /\ balance = Dollars(1000)
                           /\ transaction_history = <<>>
                           /\ call.op = "__init__")
    /\ [][ /\ (pc = "pin" /\ pc' = "menu") => (inp' = <<pin>> /\ attempt < 3)
           /\ pc' = "menu" => pc \in {"pin", "menu"}
           /\ pc = "pin" => UNCHANGED <<pin, balance, transaction_history, call, ret>>
           /\ (pc = "pin" /\ inp' # <<pin>>) => (pc' # "menu" /\ attempt' = attempt + 1)
           /\ (pc = "pin" /\ attempt' = 3) => pc' = "locked"
           /\ pc # "locked"
         ]_vars

\* C11 witness: the session ended on the third wrong entry.
SessionPinGateWitness ==
    /\ pc = "locked"
    /\ attempt = 3
    /\ inp # <<pin>>

\* The amount texts of the model that are not numbers
NonNumericTexts == { <<"1", "2", "a">>, <<>> }

\* C15: in the menu, a choice that is none of 1-6, and a non-numeric amount for a
\* withdrawal or a deposit, are reported as an error, change neither pin, balance nor
\* history, and leave the session in the menu.
InvalidInputRecovers ==
    [][ /\ (pc = "menu" /\ inp'[1] \notin ValidChoices)
             => /\ out' = <<"Invalid selection. Please choose a valid option.\n">>
                /\ UNCHANGED <<pin, balance, transaction_history>>
                /\ pc' = "menu"
        /\ (pc = "menu" /\ inp'[1] \in { <<"2">>, <<"3">> } /\ inp'[2] \in NonNumericTexts)
             => /\ out' = <<"Invalid input. Please enter a numeric value.\n">>
                /\ UNCHANGED <<pin, balance, transaction_history>>
                /\ pc' = "menu"
      ]_vars

\* C15 witness: a non-numeric withdrawal amount was reported in a session that has
\* made a successful operation.
InvalidInputRecoversWitness ==
    /\ pc = "menu"
    /\ inp = << <<"2">>, <<"1", "2", "a">> >>
    /\ out = <<"Invalid input. Please enter a numeric value.\n">>
    /\ Len(oplog) >= 1

\* C16: every step taken in the menu stays in the menu, except the choice 6, which
\* ends the session; the session ends in no other way than that and the third wrong
\* PIN entry; an ended session takes no step.
SessionLoopsUntilExit ==
    [][ /\ pc = "menu" => (pc' = "menu" \/ (pc' = "exited" /\ inp' = << <<"6">> >>))
        /\ (pc = "menu" /\ inp' = << <<"6">> >>) => pc' = "exited"
        /\ pc' \in {"pin", "menu", "exited", "locked"}
        /\ pc' = "exited" => pc = "menu"
        /\ pc' = "locked" => (pc = "pin" /\ attempt' = 3)
        /\ pc \notin SessionEnded
      ]_vars

\* C16 witness: the session was left by the exit option after a failed and a
\* successful operation.
SessionLoopsUntilExitWitness ==
    /\ pc = "exited"
    /\ call.op = "change_pin"
    /\ ~ret.ok
    /\ Len(oplog) >= 1

====
